---- MODULE Spec2Model ----
(***************************************************************************)
(* Bond-fund screening pipeline: the four stage scripts                    *)
(*   1.1_get_all_3year_bond_funds.py  (establishment-age stage)            *)
(*   2_buyable_and_cheap.py           (purchase-eligibility stage)         *)
(*   3_Ulcer_and_Martin.py            (risk-scoring stage)                 *)
(*   4_revenue.py                     (returns-enrichment stage)           *)
(* Each script is one run: a main thread that submits per-candidate tasks  *)
(* to a ThreadPoolExecutor, collects them with as_completed and writes the *)
(* candidate file.  Python's None is the empty tuple <<>>, an optional     *)
(* value x is <<x>>.  Times are in milliseconds.                           *)
(***************************************************************************)
EXTENDS Integers, Sequences, FiniteSets, TLC

VARIABLES
    pc,               \* position of the main thread of the running script
    funds,            \* the candidate list the run works on, with each candidate's lookup behaviour
    max_workers,      \* ThreadPoolExecutor(max_workers=...)
    idx,              \* loop position of the submission loop (1-based, next to submit)
    request_queue,    \* 1.1: request_queue = Queue() of tokens
    futures,          \* futures list, in submission order (indexes into funds)
    fstate,           \* per task: "new", "queued", "running", "finished"
    fresult,          \* per finished task: what future.result() gives
    yielded,          \* futures as_completed has already handed to the loop body
    valid_codes,      \* 1.1: valid_codes
    error_records,    \* 1.1: error_records
    processed_count,  \* 1.1: processed_count
    store,            \* the candidate-set file (rows), as last written
    errfile,          \* the error-record file (rows), as last written
    pauses,           \* observer: rate-limit pauses (time.sleep) taken so far
    burst,            \* observer: submissions handed to the pool since the last pause
    callers,          \* threads inside controlled_submit: each one's position and calls made
    fetch,            \* one call of get_fund_data: its loop state and what it did
    results,          \* 2: result_list, 3: results
    request_count,    \* 2: request_count
    metrics,          \* RiskMetrics applied to given arguments: the arguments and the outcomes
    rev               \* 4: the loop state of query_fund_returns

inVars == <<funds, max_workers>>
poolVars == <<futures, fstate, fresult, yielded>>
limVars == <<request_queue, pauses, burst>>
collectVars == <<valid_codes, error_records, processed_count, results, request_count>>
sideVars == <<callers, fetch, metrics, rev>>
fileVars == <<store, errfile>>

vars == <<pc, idx, inVars, poolVars, limVars, collectVars, fileVars, sideVars>>

(***************************************************************************)
(* Bounds of the model.                                                    *)
(***************************************************************************)
MaxFunds == 3        \* candidates of a run whose tasks run concurrently
MaxSubmissions == 32 \* candidates of a run of the submission loop alone
Today == 4000        \* datetime.now(), as a day number

None == <<>>
Some(x) == <<x>>

Range(s) == {s[i] : i \in 1..Len(s)}

RECURSIVE zfill(_, _)
\* str.zfill(width): left-pad with "0" up to width
zfill(s, width) == IF Len(s) >= width THEN s ELSE zfill("0" \o s, width)

\* candidate identifiers as the provider gives them (before zfill), by position
RawCodes == <<"1", "000002", "519985", "13", "007", "100000">>
CodeAt(i) == RawCodes[((i - 1) % Len(RawCodes)) + 1]

(***************************************************************************)
(* Floating point.  A number is [k, v, np]: k is "fin" (the value v/Scale),*)
(* "inf", "ninf" or "nan"; np tells a numpy.float64 from a Python float.   *)
(* numpy arithmetic never raises (x/0 is inf, -inf or nan, with a warning);*)
(* Python float division by zero raises ZeroDivisionError.  An operation   *)
(* with a numpy operand is a numpy operation and gives a numpy.float64.    *)
(* k = "raise" is the raised exception in place of a value.                *)
(***************************************************************************)
Scale == 10 * 10 * 10   \* fixed point: v stands for v / 1000

Np(v) == [k |-> "fin", v |-> v, np |-> TRUE]
Py(v) == [k |-> "fin", v |-> v, np |-> FALSE]
Special(kind, isnp) == [k |-> kind, v |-> 0, np |-> isnp]
Raised == [k |-> "raise", v |-> 0, np |-> FALSE]
IsValue(x) == x.k # "raise"
IsFinite(x) == x.k = "fin"

\* sign of a non-nan number: -1, 0, 1
Sign(x) ==
    IF x.k = "inf" THEN 1
    ELSE IF x.k = "ninf" THEN -1
    ELSE IF x.v > 0 THEN 1 ELSE IF x.v < 0 THEN -1 ELSE 0

Signed(sgn, isnp) ==
    IF sgn > 0 THEN Special("inf", isnp)
    ELSE IF sgn < 0 THEN Special("ninf", isnp)
    ELSE Special("nan", isnp)

\* a - b
FSub(a, b) ==
    LET isnp == a.np \/ b.np IN
    IF a.k = "nan" \/ b.k = "nan" THEN Special("nan", isnp)
    ELSE IF a.k = "fin" /\ b.k = "fin" THEN [k |-> "fin", v |-> a.v - b.v, np |-> isnp]
    ELSE IF a.k = "fin" THEN Signed(-Sign(b), isnp)
    ELSE IF b.k = "fin" THEN Signed(Sign(a), isnp)
    ELSE IF a.k = b.k THEN Special("nan", isnp)
    ELSE Signed(Sign(a), isnp)

\* a / b
FDiv(a, b) ==
    LET isnp == a.np \/ b.np IN
    IF a.k = "nan" \/ b.k = "nan" THEN Special("nan", isnp)
    ELSE IF b.k = "fin" /\ b.v = 0
    THEN IF ~isnp THEN Raised ELSE Signed(Sign(a), isnp)
    ELSE IF a.k = "fin" /\ b.k = "fin"
    THEN [k |-> "fin", v |-> (a.v * Scale) \div b.v, np |-> isnp]
    ELSE IF a.k = "fin" THEN [k |-> "fin", v |-> 0, np |-> isnp]
    ELSE IF b.k = "fin" THEN Signed(Sign(a) * Sign(b), isnp)
    ELSE Special("nan", isnp)

\* a * c and a - c for a finite constant c (given in units of 1/Scale)
FScale(a, c) ==
    IF a.k = "fin" THEN [a EXCEPT !.v = (a.v * c) \div Scale]
    ELSE IF a.k = "nan" THEN a
    ELSE Signed(Sign(a) * (IF c > 0 THEN 1 ELSE IF c < 0 THEN -1 ELSE 0), a.np)

\* comparisons: anything compared with nan is False
FGe(a, c) == a.k = "inf" \/ (a.k = "fin" /\ a.v >= c)
FLe(a, c) == a.k = "ninf" \/ (a.k = "fin" /\ a.v <= c)

RECURSIVE IPow(_, _)
\* r ** n for a whole n >= 0
IPow(r, n) == IF n = 0 THEN Scale ELSE (IPow(r, n - 1) * r) \div Scale

RECURSIVE RootSearch(_, _, _, _)
\* the largest r in lo..hi with r ** n <= x
RootSearch(lo, hi, x, n) ==
    IF lo >= hi THEN lo
    ELSE LET mid == (lo + hi + 1) \div 2 IN
         IF IPow(mid, n) <= x THEN RootSearch(mid, hi, x, n)
         ELSE RootSearch(lo, mid - 1, x, n)

\* x ** (1/n) for x >= 0 and a whole n >= 1
Root(x, n) == RootSearch(0, IF x > Scale THEN x ELSE Scale, x, n)

RECURSIVE SqrtSearch(_, _, _)
SqrtSearch(lo, hi, m) ==
    IF lo >= hi THEN lo
    ELSE LET mid == (lo + hi + 1) \div 2 IN
         IF mid * mid <= m THEN SqrtSearch(mid, hi, m) ELSE SqrtSearch(lo, mid - 1, m)

\* sqrt of m / Scale^2, in units of 1/Scale
ISqrt(m) == SqrtSearch(0, Scale * 4, m)

\* numpy x ** (1/n), n a whole number other than 0.  A negative base has a
\* real power only for a whole exponent (n = 1 or n = -1).
FRoot(x, n) ==
    LET m == IF n > 0 THEN n ELSE -n IN
    IF x.k = "nan" THEN x
    ELSE IF x.k = "inf" THEN (IF n > 0 THEN x ELSE Np(0))
    ELSE IF x.k = "ninf"
    THEN (IF n > 0 THEN (IF n = 1 THEN x ELSE Special("inf", TRUE)) ELSE Np(0))
    ELSE IF x.v = 0 THEN (IF n > 0 THEN Np(0) ELSE Special("inf", TRUE))
    ELSE IF x.v < 0
    THEN (IF m = 1 THEN (IF n > 0 THEN Np(x.v) ELSE Np((Scale * Scale) \div x.v))
          ELSE Special("nan", TRUE))
    ELSE IF n > 0 THEN Np(Root(x.v, m))
    ELSE Np((Scale * Scale) \div Root(x.v, m))

(***************************************************************************)
(* 3: RiskMetrics.  A net-value series is a sequence of values in units of *)
(* 1/Scale (numpy.float64 in the program: a pandas column).                *)
(***************************************************************************)
\* the exponent 1 / years is taken to the nearest whole number of years
WholeYears(days) == (2 * days + 365) \div 730

\* calculate_annualized_return(net_values, start_date, end_date);
\* days = (end_date - start_date).days
calculate_annualized_return(net_values, days) ==
    LET start_value == Np(net_values[1])
        end_value == Np(net_values[Len(net_values)])
    IN  IF days = 0 THEN Raised       \* 1 / years: ZeroDivisionError
        ELSE FScale(FSub(FRoot(FDiv(end_value, start_value), WholeYears(days)),
                         Np(Scale)),
                    100 * Scale)

\* the maximum of the whole series, not the running one
WholeMax(s, i) == CHOOSE m \in Range(s) : \A k \in 1..Len(s) : s[k] <= m

RECURSIVE CumMax(_, _)
\* Series.cummax(), up to position i
CumMax(s, i) ==
    IF i = 1 THEN s[1]
    ELSE LET before == CumMax(s, i - 1) IN IF s[i] > before THEN s[i] ELSE before

RECURSIVE SumTo(_, _)
SumTo(s, i) == IF i = 0 THEN 0 ELSE SumTo(s, i - 1) + s[i]

\* calculate_ulcer_index(net_values).  With net_values.iloc[0] == 0 every
\* ratio is inf, -inf or nan, so every drawdown is nan and so is their mean.
calculate_ulcer_index(net_values) ==
    IF net_values[1] = 0 THEN Special("nan", TRUE)
    ELSE LET n == Len(net_values)
             cumulative_returns == [i \in 1..n |-> (net_values[i] * Scale) \div net_values[1]]
             peak == [i \in 1..n |-> CumMax(cumulative_returns, i)]
             drawdown == [i \in 1..n |-> ((peak[i] - cumulative_returns[i]) * Scale) \div peak[i]]
             drawdown_squared == [i \in 1..n |-> drawdown[i] * drawdown[i]]
         IN  Np(ISqrt(SumTo(drawdown_squared, n) \div n) * 100)

\* calculate_martin_ratio(annualized_return, risk_free_rate, ulcer_index)
calculate_martin_ratio(annualized_return, risk_free_rate, ulcer_index) ==
    FDiv(FSub(annualized_return, risk_free_rate), ulcer_index)

(***************************************************************************)
(* ThreadPoolExecutor: submit queues a work item; a worker thread takes    *)
(* the oldest queued item while fewer than max_workers run; a running item *)
(* finishes with the value (or exception) of the task function.            *)
(***************************************************************************)
Tasks == 1..Len(funds)
Running == {i \in Tasks : fstate[i] = "running"}
Queued == {i \in Tasks : fstate[i] = "queued"}
Finished == {i \in Tasks : fstate[i] = "finished"}
PoolStage == pc \in {"age_submit", "age_collect", "buy_submit", "buy_collect",
                    "risk_submit", "risk_collect"}

\* every future not yet handed to the loop body, finished or not
PendingOrCompleted == {i \in Tasks : i \in {futures[k] : k \in 1..Len(futures)} \ yielded}

\* as_completed(futures): the finished futures not yet handed to the loop body
CompletedNow == {i \in Tasks : i \in {futures[k] : k \in 1..Len(futures)} \ yielded
                                /\ fstate[i] = "finished"}

\* as_completed(futures) is exhausted once every future has been yielded
ExhaustedWhenNonePending == CompletedNow = {}
Exhausted == yielded = {futures[k] : k \in 1..Len(futures)}

(***************************************************************************)
(* 1.1 establishment-age stage                                             *)
(***************************************************************************)
BurstSize == 15      \* request_queue.qsize() >= 15
PauseMs == 150       \* time.sleep(0.15)
AgeWorkers == 15     \* max_workers = 15

\* a threshold one year further back
four_years_ago == Today - 4 * 365

\* three_years_ago = datetime.now() - timedelta(days=3 * 365)
three_years_ago == Today - 3 * 365

\* what ak.fund_individual_basic_info_xq does for one candidate
AgeLookups ==
    {[kind |-> "raises", date |-> 0],      \* the lookup raises
     [kind |-> "norow", date |-> 0],       \* no row with item == establishment date
     [kind |-> "baddate", date |-> 0],     \* value does not parse as %Y-%m-%d
     [kind |-> "date", date |-> Today - 5 * 365],
     [kind |-> "date", date |-> Today - 3 * 365],
     [kind |-> "date", date |-> Today - 365]}

\* check_fund_establishment(fund_code, fund_name, three_years_ago)
check_fund_establishment(fund_code, lookup, threshold) ==
    IF lookup.kind = "raises"
    THEN [valid_code |-> None,
          error_record |-> Some([code |-> fund_code, error |-> "lookup"])]
    ELSE IF lookup.kind = "norow"
    THEN [valid_code |-> None,
          error_record |-> Some([code |-> fund_code, error |-> "nofield"])]
    ELSE IF lookup.kind = "baddate"
    THEN [valid_code |-> None,
          error_record |-> Some([code |-> fund_code, error |-> "strptime"])]
    ELSE IF lookup.date <= threshold
    THEN [valid_code |-> Some(fund_code), error_record |-> None]
    ELSE [valid_code |-> None, error_record |-> None]

\* truth value of an optional string / an optional dict in an if
Truthy(opt) == opt # None /\ opt[1] # ""

NoResult == [valid_code |-> None, error_record |-> None]

\* get_fund_data is not being called
NoFetch == [pc |-> "idle", attempt |-> 0, calls |-> 0, backoffs |-> 0, clock |-> 0,
            last_call |-> 0, gap |-> 0, ret |-> None]

\* parts of the state a script does not use
IdlePool == futures = <<>> /\ fstate = <<>> /\ fresult = <<>> /\ yielded = {}
IdleThrottle == request_queue = <<>> /\ pauses = 0 /\ burst = 0
IdleCollect ==
    /\ valid_codes = <<>>
    /\ error_records = <<>>
    /\ processed_count = 0
    /\ results = <<>>
    /\ request_count = 0
IdleFiles == store = <<>> /\ errfile = <<>>

\* a fresh pool with one future-to-be per candidate
NewPool(fs, noresult) ==
    /\ futures = <<>>
    /\ fstate = [i \in 1..Len(fs) |-> "new"]
    /\ fresult = [i \in 1..Len(fs) |-> noresult]
    /\ yielded = {}

\* the state right after the candidate list has been built (lines 67-103)
InitAgeWith(fs, w) ==
    /\ pc = "age_submit"
    /\ funds = fs
    /\ max_workers = w
    /\ idx = 1
    /\ NewPool(fs, NoResult)
    /\ IdleThrottle
    /\ IdleCollect
    /\ IdleFiles
    /\ callers = <<>>
    /\ fetch = NoFetch
    /\ metrics = <<>>
    /\ rev = <<>>

AgeFundLists(n) ==
    {[i \in 1..n |-> [code |-> zfill(CodeAt(i), 6), lookup |-> l[i]]] :
        l \in [1..n -> AgeLookups]}

InitAge ==
    \E n \in 0..MaxFunds : \E fs \in AgeFundLists(n) : \E w \in {1, AgeWorkers} :
        InitAgeWith(fs, w)

\* controlled_submit, line 107: if request_queue.qsize() >= 15
ThrottledSkipsBurst(q) == Len(q) > BurstSize
Throttled(q) == Len(q) >= BurstSize

\* controlled_submit, lines 107-113: pause and drain when throttled, then put a token
QueueAfterThrottle(q) ==
    IF Throttled(q) THEN <<1>> ELSE Append(q, 1)

\* one pass of the submission loop body (lines 119-127), controlled_submit included
AgeSubmit ==
    /\ pc = "age_submit"
    /\ idx <= Len(funds)
    /\ request_queue' = QueueAfterThrottle(request_queue)
    /\ pauses' = IF Throttled(request_queue) THEN pauses + 1 ELSE pauses
    /\ burst' = IF Throttled(request_queue) THEN 1 ELSE burst + 1
    /\ futures' = Append(futures, idx)
    /\ fstate' = [fstate EXCEPT ![idx] = "queued"]
    /\ idx' = idx + 1
    /\ UNCHANGED <<pc, inVars, fresult, yielded, collectVars, fileVars, sideVars>>

\* the submission loop is exhausted; as_completed(futures) starts (line 129)
AgeSubmitDone ==
    /\ pc = "age_submit"
    /\ idx > Len(funds)
    /\ pc' = "age_collect"
    /\ UNCHANGED <<idx, inVars, poolVars, limVars, collectVars, fileVars, sideVars>>

\* a worker thread takes the oldest queued work item
WorkerStart(i) ==
    /\ PoolStage
    /\ fstate[i] = "queued"
    /\ \A j \in Queued : i <= j
    /\ Cardinality(Running) < max_workers
    /\ fstate' = [fstate EXCEPT ![i] = "running"]
    /\ UNCHANGED <<pc, idx, inVars, futures, fresult, yielded, limVars, collectVars, fileVars,
                   sideVars>>

\* a worker thread runs check_fund_establishment to its return
AgeWorkerFinish(i) ==
    /\ pc \in {"age_submit", "age_collect"}
    /\ fstate[i] = "running"
    /\ fstate' = [fstate EXCEPT ![i] = "finished"]
    /\ fresult' = [fresult EXCEPT ![i] =
            check_fund_establishment(funds[i].code, funds[i].lookup, three_years_ago)]
    /\ UNCHANGED <<pc, idx, inVars, futures, yielded, limVars, collectVars, fileVars,
                   sideVars>>

\* one pass of the as_completed loop body (lines 129-138)
AgeCollect(i) ==
    /\ pc = "age_collect"
    /\ i \in CompletedNow
    /\ yielded' = yielded \cup {i}
    /\ valid_codes' = IF Truthy(fresult[i].valid_code)
                      THEN Append(valid_codes, fresult[i].valid_code[1])
                      ELSE valid_codes
    /\ error_records' = IF fresult[i].error_record # None
                        THEN Append(error_records, fresult[i].error_record[1])
                        ELSE error_records
    /\ processed_count' = processed_count + 1
    /\ UNCHANGED <<pc, idx, inVars, futures, fstate, fresult, limVars, fileVars,
                   results, request_count, sideVars>>

\* as_completed is exhausted: leave the with block and save (lines 140-150)
AgeSave ==
    /\ pc = "age_collect"
    /\ Exhausted
    /\ store' = [k \in 1..Len(valid_codes) |-> [code |-> valid_codes[k]]]
    /\ errfile' = IF error_records # <<>> THEN error_records ELSE errfile
    /\ pc' = "age_done"
    /\ UNCHANGED <<idx, inVars, poolVars, limVars, collectVars, sideVars>>

NextAge ==
    \/ AgeSubmit
    \/ AgeSubmitDone
    \/ \E i \in Tasks : WorkerStart(i)
    \/ \E i \in Tasks : AgeWorkerFinish(i)
    \/ \E i \in Tasks : AgeCollect(i)
    \/ AgeSave

SpecAge == InitAge /\ [][NextAge]_vars

(***************************************************************************)
(* The submission loop of 1.1 on its own: long candidate lists, the worker *)
(* threads left out (they touch neither request_queue nor the throttle).   *)
(***************************************************************************)
InitSubmit ==
    \E n \in 0..MaxSubmissions : \E l \in AgeLookups :
        InitAgeWith([i \in 1..n |-> [code |-> zfill(CodeAt(i), 6), lookup |-> l]],
                    AgeWorkers)

NextSubmit == AgeSubmit \/ AgeSubmitDone

SpecSubmit == InitSubmit /\ [][NextSubmit]_vars

\* C4: in every sequence of submissions through controlled_submit, at most
\* burst_size (15) submissions are handed to the pool before the first pause and
\* between any two consecutive pauses.
C4_BurstBounded == burst <= BurstSize

\* 30 submissions: a full burst of 15 has followed the first pause
C4_Witness == pauses = 1 /\ burst = BurstSize /\ Len(futures) = 2 * BurstSize

(***************************************************************************)
(* controlled_submit called from several threads at once.  Each Queue      *)
(* method (qsize, empty, get, put) is atomic; the steps between them       *)
(* interleave.  get() on an empty queue blocks.                            *)
(***************************************************************************)
Callers == 2         \* threads calling controlled_submit
MaxCalls == 18       \* calls of controlled_submit in one run, all threads together

Threads == 1..Callers

InitLimiter ==
    /\ pc = "limiter"
    /\ funds = <<>>
    /\ max_workers = AgeWorkers
    /\ idx = 1
    /\ IdlePool
    /\ IdleThrottle
    /\ IdleCollect
    /\ IdleFiles
    /\ callers = [tpc |-> [t \in Threads |-> "idle"], calls |-> 0]
    /\ fetch = NoFetch
    /\ metrics = <<>>
    /\ rev = <<>>

Goto(t, where) == callers' = [callers EXCEPT !.tpc[t] = where]
LimiterRest == <<pc, idx, inVars, poolVars, collectVars, fileVars, fetch, metrics, rev>>

\* a thread enters controlled_submit
CallerEnter(t) ==
    /\ pc = "limiter"
    /\ callers.tpc[t] = "idle"
    /\ callers.calls < MaxCalls
    /\ callers' = [callers EXCEPT !.tpc[t] = "check", !.calls = @ + 1]
    /\ UNCHANGED <<limVars, LimiterRest>>

\* line 107: if request_queue.qsize() >= 15
CallerCheck(t) ==
    /\ pc = "limiter"
    /\ callers.tpc[t] = "check"
    /\ Goto(t, IF Throttled(request_queue) THEN "sleep" ELSE "put")
    /\ UNCHANGED <<limVars, LimiterRest>>

\* line 109: time.sleep(0.15) returns
CallerSleep(t) ==
    /\ pc = "limiter"
    /\ callers.tpc[t] = "sleep"
    /\ Goto(t, "drain")
    /\ pauses' = pauses + 1
    /\ burst' = 0
    /\ UNCHANGED <<request_queue, LimiterRest>>

\* line 111: while not request_queue.empty()
CallerDrainTest(t) ==
    /\ pc = "limiter"
    /\ callers.tpc[t] = "drain"
    /\ Goto(t, IF request_queue # <<>> THEN "get" ELSE "put")
    /\ UNCHANGED <<limVars, LimiterRest>>

\* line 112: request_queue.get(), which waits while the queue is empty
CallerDrainGet(t) ==
    /\ pc = "limiter"
    /\ callers.tpc[t] = "get"
    /\ request_queue # <<>>
    /\ request_queue' = Tail(request_queue)
    /\ Goto(t, "drain")
    /\ UNCHANGED <<pauses, burst, LimiterRest>>

\* line 113: request_queue.put(1)
CallerPut(t) ==
    /\ pc = "limiter"
    /\ callers.tpc[t] = "put"
    /\ request_queue' = Append(request_queue, 1)
    /\ Goto(t, "submit")
    /\ UNCHANGED <<pauses, burst, LimiterRest>>

\* line 114: return executor.submit(func, *args)
CallerSubmit(t) ==
    /\ pc = "limiter"
    /\ callers.tpc[t] = "submit"
    /\ burst' = burst + 1
    /\ Goto(t, "idle")
    /\ UNCHANGED <<request_queue, pauses, LimiterRest>>

NextLimiter ==
    \E t \in Threads :
        \/ CallerEnter(t)
        \/ CallerCheck(t)
        \/ CallerSleep(t)
        \/ CallerDrainTest(t)
        \/ CallerDrainGet(t)
        \/ CallerPut(t)
        \/ CallerSubmit(t)

SpecLimiter == InitLimiter /\ [][NextLimiter]_vars

\* C6: with controlled_submit called concurrently from several threads, no
\* interleaving of its steps lets more than burst_size (15) submissions pass
\* without an intervening pause.
C6_ConcurrentBurstBounded == pc = "limiter" => burst <= BurstSize

(***************************************************************************)
(* RiskMetrics as pure functions: each function applied once to arguments  *)
(* drawn from small sets.                                                  *)
(***************************************************************************)
\* net-value series, in units of 1/Scale; 0 and negative values are out of domain
MetricSeries ==
    {<<1000>>, <<1000, 1050>>, <<1000, 990, 1200>>, <<1000, 1100, 1200>>,
     <<1000, 500, 1000>>, <<1000, 900, 1000>>, <<1000, 1000, 1100, 1200>>,
     <<0, 1000, 1100>>, <<-1000, 1050>>, <<1210, 1000>>}

\* (end_date - start_date).days; the script's own window is 1096 days
MetricDays == {-730, -365, 0, 365, 730, 1096}

\* numbers as arguments of calculate_martin_ratio
MetricNumbers ==
    {Np(0), Py(0), Np(500), Py(500), Np(6200), Py(6200), Np(-2000), Np(1500),
     Special("inf", TRUE), Special("nan", TRUE)}

Unapplied == [k |-> "unset", v |-> 0, np |-> FALSE]

InitMetrics ==
    /\ pc = "metrics"
    /\ funds = <<>>
    /\ max_workers = 0
    /\ idx = 1
    /\ IdlePool
    /\ IdleThrottle
    /\ IdleCollect
    /\ IdleFiles
    /\ callers = <<>>
    /\ fetch = NoFetch
    /\ rev = <<>>
    /\ \E nv \in MetricSeries : \E d \in MetricDays :
       \E ar \in MetricNumbers : \E ui \in MetricNumbers :
          metrics = [fn |-> "none", net_values |-> nv, days |-> d,
                     annualized_return |-> ar, risk_free_rate |-> Py(1500),
                     ulcer_index |-> ui, out |-> Unapplied]

MetricsRest == <<pc, idx, inVars, poolVars, limVars, collectVars, fileVars, callers,
                 fetch, rev>>

ApplyAnnualizedReturn ==
    /\ pc = "metrics"
    /\ metrics.fn = "none"
    /\ metrics' = [metrics EXCEPT !.fn = "annualized_return",
                      !.out = calculate_annualized_return(metrics.net_values, metrics.days)]
    /\ UNCHANGED MetricsRest

ApplyUlcerIndex ==
    /\ pc = "metrics"
    /\ metrics.fn = "none"
    /\ metrics' = [metrics EXCEPT !.fn = "ulcer_index",
                      !.out = calculate_ulcer_index(metrics.net_values)]
    /\ UNCHANGED MetricsRest

ApplyMartinRatio ==
    /\ pc = "metrics"
    /\ metrics.fn = "none"
    /\ metrics' = [metrics EXCEPT !.fn = "martin_ratio",
                      !.out = calculate_martin_ratio(metrics.annualized_return,
                                  metrics.risk_free_rate, metrics.ulcer_index)]
    /\ UNCHANGED MetricsRest

NextMetrics == ApplyAnnualizedReturn \/ ApplyUlcerIndex \/ ApplyMartinRatio

SpecMetrics == InitMetrics /\ [][NextMetrics]_vars

\* C9: calculate_martin_ratio with an Ulcer Index of exactly 0 ends in an error,
\* whatever the annualized return and the risk-free rate: it never returns a
\* number, inf or nan.
C9_MartinFailsAtZeroUlcer ==
    (pc = "metrics" /\ metrics.fn = "martin_ratio"
        /\ metrics.ulcer_index.k = "fin" /\ metrics.ulcer_index.v = 0)
    => metrics.out = Raised

\* C10: calculate_annualized_return ends in an error whenever years <= 0 (the end
\* date is not after the start date) or start_value <= 0: it never returns a
\* number, inf or nan there.
C10_AnnualizedFailsOutOfDomain ==
    (pc = "metrics" /\ metrics.fn = "annualized_return"
        /\ (metrics.days <= 0 \/ metrics.net_values[1] <= 0))
    => metrics.out = Raised

(***************************************************************************)
(* 3: get_fund_data(fund_code, max_retries=3, retry_delay=5), step by step.*)
(* A candidate's lookup raises on its first `fails` calls and returns the  *)
(* candidate's payload from then on.                                       *)
(***************************************************************************)
MaxRetries == 3          \* max_retries=3
RetryDelayMs == 5000     \* retry_delay=5
JitterMinMs == 500       \* random.uniform(0.5, 2)
JitterMaxMs == 2000
MaxFails == 4            \* a lookup raises on at most this many calls in a row

Jitters == {JitterMinMs, JitterMaxMs}

\* net-value payloads of ak.fund_open_fund_info_em, by what process_fund sees
RiskPayloads ==
    {[kind |-> "empty", values |-> <<>>],          \* an empty DataFrame
     [kind |-> "nodatecol", values |-> <<>>],      \* no net-value-date column
     [kind |-> "novalcol", values |-> <<>>],       \* no cumulative-net-value column
     [kind |-> "noboundary", values |-> <<>>],     \* no row for start_date_str or end_date_str
     [kind |-> "series", values |-> <<1000, 990, 1200>>],
     [kind |-> "series", values |-> <<1000, 1100, 1200>>],
     [kind |-> "series", values |-> <<1000, 900, 1000>>],
     [kind |-> "series", values |-> <<0, 1000, 1100>>]}

\* the k-th call of the lookup for this candidate raises
LookupRaises(fund, k) == k <= fund.fails

\* line 39: for attempt in range(max_retries)
InRangeOneMore(attempt) == attempt <= MaxRetries
InRange(attempt) == attempt < MaxRetries

\* a backoff after every failed attempt, the last one included
BackoffAlways(attempt) == attempt < MaxRetries

\* line 50: if attempt < max_retries - 1
BackoffDue(attempt) == attempt < MaxRetries - 1

InitFetch ==
    /\ pc = "fetch"
    /\ \E f \in 0..MaxFails : \E p \in RiskPayloads :
          funds = <<[code |-> zfill(CodeAt(1), 6), fails |-> f, payload |-> p]>>
    /\ max_workers = 0
    /\ idx = 1
    /\ IdlePool
    /\ IdleThrottle
    /\ IdleCollect
    /\ IdleFiles
    /\ callers = <<>>
    /\ fetch = [NoFetch EXCEPT !.pc = IF InRange(0) THEN "jitter" ELSE "returned"]
    /\ metrics = <<>>
    /\ rev = <<>>

FetchRest == <<pc, idx, inVars, poolVars, limVars, collectVars, fileVars, callers,
               metrics, rev>>

\* line 42: time.sleep(random.uniform(0.5, 2))
FetchJitter ==
    /\ pc = "fetch"
    /\ fetch.pc = "jitter"
    /\ \E j \in Jitters : fetch' = [fetch EXCEPT !.pc = "call", !.clock = @ + j]
    /\ UNCHANGED FetchRest

\* lines 43-47: the lookup returns and get_fund_data returns its payload, or raises
FetchCall ==
    /\ pc = "fetch"
    /\ fetch.pc = "call"
    /\ fetch' = [fetch EXCEPT
            !.calls = @ + 1,
            !.gap = IF fetch.calls >= 1 THEN fetch.clock - fetch.last_call ELSE 0,
            !.last_call = fetch.clock,
            !.pc = IF LookupRaises(funds[1], fetch.calls + 1) THEN "except" ELSE "returned",
            !.ret = IF LookupRaises(funds[1], fetch.calls + 1) THEN None
                    ELSE Some(funds[1].payload)]
    /\ UNCHANGED FetchRest

\* lines 48-51 and the loop head: the except clause, then the next attempt or line 52
FetchExcept ==
    /\ pc = "fetch"
    /\ fetch.pc = "except"
    /\ fetch' = [fetch EXCEPT
            !.backoffs = IF BackoffDue(fetch.attempt) THEN @ + 1 ELSE @,
            !.clock = IF BackoffDue(fetch.attempt) THEN @ + RetryDelayMs ELSE @,
            !.attempt = @ + 1,
            !.pc = IF InRange(fetch.attempt + 1) THEN "jitter" ELSE "returned",
            !.ret = None]
    /\ UNCHANGED FetchRest

NextFetch == FetchJitter \/ FetchCall \/ FetchExcept

SpecFetch == InitFetch /\ [][NextFetch]_vars

\* get_fund_data as one step: the payload of the first call that does not raise,
\* None after max_retries raising calls
get_fund_data(fund) ==
    IF \E k \in 1..MaxRetries : ~LookupRaises(fund, k) THEN Some(fund.payload) ELSE None

AlwaysFails(fund) == \A k \in 1..(MaxRetries + 1) : LookupRaises(fund, k)

\* C3: a lookup that always fails is attempted exactly max_attempts (3) times,
\* never more, with at least the backoff delay (5 s) between every two
\* consecutive attempts, and get_fund_data then returns None.
C3_AlwaysFailingFetch ==
    (pc = "fetch" /\ AlwaysFails(funds[1])) =>
        /\ fetch.calls <= MaxRetries
        /\ (fetch.calls >= 2 => fetch.gap >= RetryDelayMs)
        /\ (fetch.pc = "returned" => (fetch.calls = MaxRetries /\ fetch.ret = None))

\* the third attempt of an always-failing lookup has been made and None returned
C3_Witness ==
    /\ pc = "fetch"
    /\ AlwaysFails(funds[1])
    /\ fetch.pc = "returned"
    /\ fetch.calls = 3
    /\ fetch.backoffs = 2

(***************************************************************************)
(* 3: risk-scoring stage (__main__ and process_fund).  The candidate file  *)
(* holds the 6-digit codes an earlier stage wrote.  An exception that      *)
(* leaves the script ends the run at "risk_raised_collect" (out of         *)
(* future.result(), line 183) or "risk_raised_merge" (out of pd.merge,     *)
(* line 199): nothing is written.                                          *)
(***************************************************************************)
WindowDays == 1096       \* 2023-02-24 to 2026-02-24
MaxRiskFunds == 2        \* candidates of a run of the risk-scoring stage
PoolWorkers == 64        \* max_workers = cpu_count() * 4 on a 16-processor machine

\* risk_free_rate = 1.5
risk_free_rate == Py((3 * Scale) \div 2)

RiskNone == [tag |-> "None", code |-> "", annualized_return |-> Unapplied,
             ulcer_index |-> Unapplied, martin_ratio |-> Unapplied]
RiskRaise == [RiskNone EXCEPT !.tag = "raise"]

\* process_fund(fund_code, start_date_str, end_date_str, risk_free_rate)
process_fund(fund, days, rate) ==
    LET fund_data == get_fund_data(fund) IN
    IF fund_data = None \/ fund_data[1].kind = "empty" THEN RiskNone
    ELSE IF fund_data[1].kind = "nodatecol" THEN RiskRaise      \* line 100: KeyError
    ELSE IF fund_data[1].kind \in {"novalcol", "noboundary"} THEN RiskNone  \* line 108
    ELSE LET net_values == fund_data[1].values IN
         IF net_values = <<>> THEN RiskNone
         ELSE LET annualized_return == calculate_annualized_return(net_values, days)
                  ulcer_index == calculate_ulcer_index(net_values)
              IN  IF ~IsValue(annualized_return) THEN RiskRaise
                  ELSE LET martin_ratio == calculate_martin_ratio(annualized_return,
                                               rate, ulcer_index)
                       IN  IF ~IsValue(martin_ratio) THEN RiskRaise
                           ELSE [tag |-> "result",
                                 code |-> zfill(fund.code, 6),
                                 annualized_return |-> annualized_return,
                                 ulcer_index |-> ulcer_index,
                                 martin_ratio |-> martin_ratio]

\* lines 192-196: 3.5 <= annualized return <= 10 and Martin Ratio >= 3.5
RiskKeep(r) ==
    /\ FGe(r.annualized_return, (7 * Scale) \div 2)
    /\ FLe(r.annualized_return, 10 * Scale)
    /\ FGe(r.martin_ratio, (7 * Scale) \div 2)

RECURSIVE MergeInner(_, _)
\* pd.merge(left, right, how='inner') on the code: left order, one row per match
MergeInner(left, right) ==
    IF left = <<>> THEN <<>>
    ELSE SelectSeq(right, LAMBDA r : r.code = Head(left).code)
             \o MergeInner(Tail(left), right)

\* behaviours of one candidate's lookup: how many calls raise, and the payload
RiskBehaviours ==
    {[fails |-> 0, payload |-> p] : p \in RiskPayloads}
        \cup {[fails |-> MaxRetries, payload |-> [kind |-> "empty", values |-> <<>>]],
              [fails |-> MaxRetries - 1,
               payload |-> [kind |-> "series", values |-> <<1000, 990, 1200>>]]}

RiskFundLists(n) ==
    {[i \in 1..n |-> [code |-> zfill(CodeAt(i), 6), fails |-> b[i].fails,
                       payload |-> b[i].payload]] :
        b \in [1..n -> RiskBehaviours]}

\* the state after the candidate file has been read (lines 146-173)
InitRisk ==
    \E n \in 0..MaxRiskFunds : \E fs \in RiskFundLists(n) : \E w \in {1, PoolWorkers} :
        /\ pc = "risk_submit"
        /\ funds = fs
        /\ max_workers = w
        /\ idx = 1
        /\ NewPool(fs, RiskNone)
        /\ IdleThrottle
        /\ IdleCollect
        /\ store = [i \in 1..n |-> [code |-> fs[i].code]]
        /\ errfile = <<>>
        /\ callers = <<>>
        /\ fetch = NoFetch
        /\ metrics = <<>>
        /\ rev = <<>>

\* one pass of the submission loop (lines 178-180)
RiskSubmit ==
    /\ pc = "risk_submit"
    /\ idx <= Len(funds)
    /\ futures' = Append(futures, idx)
    /\ fstate' = [fstate EXCEPT ![idx] = "queued"]
    /\ idx' = idx + 1
    /\ UNCHANGED <<pc, inVars, fresult, yielded, limVars, collectVars, fileVars, sideVars>>

\* the submission loop is exhausted; as_completed(futures) starts (line 182)
RiskSubmitDone ==
    /\ pc = "risk_submit"
    /\ idx > Len(funds)
    /\ pc' = "risk_collect"
    /\ UNCHANGED <<idx, inVars, poolVars, limVars, collectVars, fileVars, sideVars>>

\* a worker thread runs process_fund to its return or its exception
RiskWorkerFinish(i) ==
    /\ pc \in {"risk_submit", "risk_collect"}
    /\ fstate[i] = "running"
    /\ fstate' = [fstate EXCEPT ![i] = "finished"]
    /\ fresult' = [fresult EXCEPT ![i] = process_fund(funds[i], WindowDays, risk_free_rate)]
    /\ UNCHANGED <<pc, idx, inVars, futures, yielded, limVars, collectVars, fileVars,
                   sideVars>>

\* one pass of the as_completed loop body (lines 182-185); future.result()
\* re-raises the task's exception, which nothing catches
RiskCollect(i) ==
    /\ pc = "risk_collect"
    /\ i \in CompletedNow
    /\ yielded' = yielded \cup {i}
    /\ pc' = IF fresult[i].tag = "raise" THEN "risk_raised_collect" ELSE pc
    /\ results' = IF fresult[i].tag = "result" THEN Append(results, fresult[i])
                  ELSE results
    /\ UNCHANGED <<idx, inVars, futures, fstate, fresult, limVars, valid_codes,
                   error_records, processed_count, request_count, fileVars, sideVars>>

\* lines 187-206: filter, merge into the candidate file's rows, save.
\* pd.DataFrame([]) has no columns, so the merge raises KeyError on its right_on.
RiskSave ==
    /\ pc = "risk_collect"
    /\ Exhausted
    /\ IF results = <<>>
       THEN pc' = "risk_raised_merge" /\ store' = store
       ELSE /\ pc' = "risk_done"
            /\ store' = MergeInner(store, SelectSeq(results, RiskKeep))
    /\ UNCHANGED <<idx, inVars, poolVars, limVars, collectVars, errfile, sideVars>>

NextRisk ==
    \/ RiskSubmit
    \/ RiskSubmitDone
    \/ \E i \in Tasks : WorkerStart(i)
    \/ \E i \in Tasks : RiskWorkerFinish(i)
    \/ \E i \in Tasks : RiskCollect(i)
    \/ RiskSave

SpecRisk == InitRisk /\ [][NextRisk]_vars

(***************************************************************************)
(* 2: purchase-eligibility stage (query_fund_purchase_status).  The        *)
(* reference table all_fund_data is fetched once; a candidate's task looks *)
(* its row up.  A cell of the purchase-minimum column is a number or not   *)
(* (text, or NaN).  Statuses: "open", "suspended" and "closed_period"      *)
(* stand for the provider's labels; the last two are the blocked ones.     *)
(***************************************************************************)
PriceCeiling == 1000     \* merged_df[purchase minimum] <= 1000
BuyPauseEvery == 15      \* if request_count % 15 == 0

Number(v) == [num |-> TRUE, v |-> v]
NotANumber == [num |-> FALSE, v |-> 0]

BlockedStatuses == {"closed_period", "suspended"}

\* what the reference table holds for one candidate
BuyInfos ==
    {[kind |-> "absent", status |-> "", start |-> NotANumber]}
        \cup {[kind |-> "row", status |-> st, start |-> c] :
                st \in {"open", "suspended", "closed_period"},
                c \in {Number(10), Number(PriceCeiling), Number(PriceCeiling + 1),
                       NotANumber}}

\* a reference table without the expected columns: a found candidate's lookup raises
BrokenInfos ==
    {[kind |-> "absent", status |-> "", start |-> NotANumber],
     [kind |-> "keyerror", status |-> "", start |-> NotANumber]}

BuyRaise == [tag |-> "raise", code |-> "", status |-> "", start |-> NotANumber]

\* query_fund_info(code, all_fund_data)
query_fund_info(code, info) ==
    IF info.kind = "keyerror" THEN BuyRaise
    ELSE IF info.kind = "row"
    THEN [tag |-> "result", code |-> zfill(code, 6), status |-> info.status,
          start |-> info.start]
    ELSE [tag |-> "result", code |-> zfill(code, 6), status |-> "not_found",
          start |-> NotANumber]

RECURSIVE MergeLeft(_, _)
\* pd.merge(df, result_df, on=code, how="left"): every left row, with its matches
\* or with empty (NaN) columns
MergeLeft(left, right) ==
    IF left = <<>> THEN <<>>
    ELSE LET found == SelectSeq(right, LAMBDA r : r.code = Head(left).code)
             row == IF found = <<>>
                    THEN <<[code |-> Head(left).code, status |-> "NaN",
                            start |-> NotANumber]>>
                    ELSE [k \in 1..Len(found) |->
                             [code |-> found[k].code, status |-> found[k].status,
                              start |-> found[k].start]]
         IN  row \o MergeLeft(Tail(left), right)

\* a ceiling that leaves out the minimum of exactly 1000
BuyKeepBelowCeiling(row) ==
    /\ row.start.num
    /\ row.start.v < PriceCeiling
    /\ row.status \notin BlockedStatuses

\* lines 124-133: pd.to_numeric(errors="coerce") <= 1000, status not blocked
BuyKeep(row) ==
    /\ row.start.num
    /\ row.start.v <= PriceCeiling
    /\ row.status \notin BlockedStatuses

BuyFundLists(n) ==
    {[i \in 1..n |-> [code |-> zfill(CodeAt(i), 6), info |-> b[i]]] :
        b \in [1..n -> BuyInfos] \cup [1..n -> BrokenInfos]}

\* the state after the candidate file and the reference table have been read
\* (lines 67-97)
InitBuy ==
    \E n \in 0..MaxRiskFunds : \E fs \in BuyFundLists(n) : \E w \in {1, PoolWorkers} :
        /\ pc = "buy_submit"
        /\ funds = fs
        /\ max_workers = w
        /\ idx = 1
        /\ NewPool(fs, BuyRaise)
        /\ IdleThrottle
        /\ IdleCollect
        /\ store = [i \in 1..n |-> [code |-> fs[i].code]]
        /\ errfile = <<>>
        /\ callers = <<>>
        /\ fetch = NoFetch
        /\ metrics = <<>>
        /\ rev = <<>>

\* line 102: one submit of the dict comprehension
BuySubmit ==
    /\ pc = "buy_submit"
    /\ idx <= Len(funds)
    /\ futures' = Append(futures, idx)
    /\ fstate' = [fstate EXCEPT ![idx] = "queued"]
    /\ idx' = idx + 1
    /\ UNCHANGED <<pc, inVars, fresult, yielded, limVars, collectVars, fileVars, sideVars>>

\* every candidate is submitted; as_completed(future_to_code) starts (line 104)
BuySubmitDone ==
    /\ pc = "buy_submit"
    /\ idx > Len(funds)
    /\ pc' = "buy_collect"
    /\ UNCHANGED <<idx, inVars, poolVars, limVars, collectVars, fileVars, sideVars>>

\* a worker thread runs query_fund_info to its return or its exception
BuyWorkerFinish(i) ==
    /\ pc \in {"buy_submit", "buy_collect"}
    /\ fstate[i] = "running"
    /\ fstate' = [fstate EXCEPT ![i] = "finished"]
    /\ fresult' = [fresult EXCEPT ![i] = query_fund_info(funds[i].code, funds[i].info)]
    /\ UNCHANGED <<pc, idx, inVars, futures, yielded, limVars, collectVars, fileVars,
                   sideVars>>

\* one pass of the as_completed loop body (lines 104-115): the result is appended
\* and every 15th one is followed by a pause; an exception is printed
BuyCollect(i) ==
    /\ pc = "buy_collect"
    /\ i \in CompletedNow
    /\ yielded' = yielded \cup {i}
    /\ IF fresult[i].tag = "raise"
       THEN UNCHANGED <<results, request_count, pauses>>
       ELSE /\ results' = Append(results, fresult[i])
            /\ request_count' = request_count + 1
            /\ pauses' = IF (request_count + 1) % BuyPauseEvery = 0
                         THEN pauses + 1 ELSE pauses
    /\ UNCHANGED <<pc, idx, inVars, futures, fstate, fresult, request_queue, burst,
                   valid_codes, error_records, processed_count, fileVars, sideVars>>

\* lines 117-140: merge, filter, save.  pd.DataFrame([]) has no columns, so
\* result_df[code column] raises KeyError when no task gave a result.
BuySave ==
    /\ pc = "buy_collect"
    /\ Exhausted
    /\ IF results = <<>>
       THEN pc' = "buy_raised_merge" /\ store' = store
       ELSE /\ pc' = "buy_done"
            /\ store' = SelectSeq(MergeLeft(store, results), BuyKeep)
    /\ UNCHANGED <<idx, inVars, poolVars, limVars, collectVars, errfile, sideVars>>

NextBuy ==
    \/ BuySubmit
    \/ BuySubmitDone
    \/ \E i \in Tasks : WorkerStart(i)
    \/ \E i \in Tasks : BuyWorkerFinish(i)
    \/ \E i \in Tasks : BuyCollect(i)
    \/ BuySave

SpecBuy == InitBuy /\ [][NextBuy]_vars

(***************************************************************************)
(* The three pool-driven stage drivers side by side (a run is one of them).*)
(***************************************************************************)
InitStages == InitAge \/ InitBuy \/ InitRisk

NextStages ==
    \/ AgeSubmit
    \/ AgeSubmitDone
    \/ \E i \in Tasks : AgeWorkerFinish(i)
    \/ \E i \in Tasks : AgeCollect(i)
    \/ AgeSave
    \/ BuySubmit
    \/ BuySubmitDone
    \/ \E i \in Tasks : BuyWorkerFinish(i)
    \/ \E i \in Tasks : BuyCollect(i)
    \/ BuySave
    \/ RiskSubmit
    \/ RiskSubmitDone
    \/ \E i \in Tasks : RiskWorkerFinish(i)
    \/ \E i \in Tasks : RiskCollect(i)
    \/ RiskSave
    \/ \E i \in Tasks : WorkerStart(i)

SpecStages == InitStages /\ [][NextStages]_vars

(***************************************************************************)
(* What a finished stage run did with each candidate, against what the     *)
(* candidate's own task does with it.                                      *)
(***************************************************************************)
\* how often code occurs in the code column of rows
Occurrences(rows, code) == Cardinality({k \in 1..Len(rows) : rows[k].code = code})

\* how often code occurs in a list of codes
CodeOccurrences(codes, code) == Cardinality({k \in 1..Len(codes) : codes[k] = code})

AgeOutcome(i) == check_fund_establishment(funds[i].code, funds[i].lookup, three_years_ago)
BuyOutcome(i) == query_fund_info(funds[i].code, funds[i].info)
RiskOutcome(i) == process_fund(funds[i], WindowDays, risk_free_rate)

Indicator(b) == IF b THEN 1 ELSE 0

\* the candidates of each class, by the candidate's own task
AgeSurviving == {i \in Tasks : Truthy(AgeOutcome(i).valid_code)}
AgeErrors == {i \in Tasks : AgeOutcome(i).error_record # None}
AgeFilteredOut == {i \in Tasks : AgeOutcome(i) = NoResult}
BuyErrors == {i \in Tasks : BuyOutcome(i).tag = "raise"}
BuySurviving == {i \in Tasks \ BuyErrors : BuyKeep(BuyOutcome(i))}
BuyFilteredOut == {i \in Tasks \ BuyErrors : ~BuyKeep(BuyOutcome(i))}
RiskAborting == {i \in Tasks : RiskOutcome(i).tag = "raise"}
RiskErrors == {i \in Tasks : RiskOutcome(i).tag = "None"}
RiskSurviving == {i \in Tasks : RiskOutcome(i).tag = "result" /\ RiskKeep(RiskOutcome(i))}
RiskFilteredOut == {i \in Tasks : RiskOutcome(i).tag = "result" /\ ~RiskKeep(RiskOutcome(i))}

\* C1: when a stage run finishes, every input candidate is in exactly one of
\* surviving (a row of the output), filtered_out (its task gave a result the
\* stage's predicate rejects) and errors (its task failed and the failure was
\* recorded or logged): no candidate is lost and none is counted twice.
C1_EveryCandidateExactlyOnce ==
    /\ pc = "age_done" =>
          /\ \A i \in Tasks :
                CodeOccurrences(valid_codes, funds[i].code)
                    + Occurrences(error_records, funds[i].code)
                    + Indicator(i \in AgeFilteredOut) = 1
          /\ Len(valid_codes) + Len(error_records) + Cardinality(AgeFilteredOut)
                = Len(funds)
          /\ Len(store) = Len(valid_codes)
          /\ processed_count = Len(funds)
    /\ pc = "buy_done" =>
          /\ \A i \in Tasks :
                Occurrences(store, funds[i].code)
                    + Indicator(i \in BuyErrors)
                    + Indicator(i \in BuyFilteredOut) = 1
          /\ Len(store) + Cardinality(BuyErrors) + Cardinality(BuyFilteredOut) = Len(funds)
    /\ pc = "risk_done" =>
          /\ \A i \in Tasks :
                Occurrences(store, funds[i].code)
                    + Indicator(i \in RiskErrors)
                    + Indicator(i \in RiskFilteredOut) = 1
          /\ Len(store) + Cardinality(RiskErrors) + Cardinality(RiskFilteredOut) = Len(funds)

\* a finished establishment-age run with one candidate of each class
C1_Witness ==
    /\ pc = "age_done"
    /\ Len(funds) = 3
    /\ Len(valid_codes) = 1
    /\ Len(error_records) = 1
    /\ Cardinality(AgeFilteredOut) = 1

\* C2 as stated: a failure in one candidate's task never ends the stage run;
\* the run goes on to the end of the candidate list and persists.  Violated by
\* the risk-scoring stage: an exception of process_fund (line 100, or the
\* metric functions) comes out of future.result() at line 183 and ends the run
\* before anything is written.
C2_TaskFailureNeverAborts == pc # "risk_raised_collect"

\* C7: the surviving set and the errors set of a run are a function of the
\* candidates and of what each candidate's lookup does, whatever max_workers is
\* and in whatever order the tasks complete; so is whether the run finishes.
C7_OutcomeIndependentOfWorkers ==
    /\ pc = "age_done" =>
          /\ {store[k].code : k \in 1..Len(store)} = {funds[i].code : i \in AgeSurviving}
          /\ Range(error_records) = {AgeOutcome(i).error_record[1] : i \in AgeErrors}
          /\ errfile = IF AgeErrors = {} THEN <<>> ELSE error_records
    /\ pc = "risk_done" =>
          /\ RiskAborting = {}
          /\ Tasks # RiskErrors
          /\ Range(store) = {RiskOutcome(i) : i \in RiskSurviving}
          /\ Range(results) = {RiskOutcome(i) : i \in Tasks \ RiskErrors}
    /\ pc = "risk_raised_collect" => RiskAborting # {}
    /\ pc = "risk_raised_merge" => RiskAborting = {} /\ Tasks = RiskErrors

\* a finished establishment-age run on 15 workers whose two survivors completed
\* in the reverse of their submission order
C7_Witness ==
    /\ pc = "age_done"
    /\ max_workers = AgeWorkers
    /\ Len(funds) >= 2
    /\ valid_codes = <<funds[2].code, funds[1].code>>

\* C8 as stated: a run on zero candidates completes normally, with empty
\* surviving, filtered_out and errors.  Violated by the purchase-eligibility
\* stage (KeyError at line 120) and by the risk-scoring stage (KeyError at line
\* 199): a frame built from an empty result list has no code column.
C8_EmptyInputCompletes ==
    Len(funds) = 0 => pc \notin {"buy_raised_merge", "risk_raised_merge"}

(***************************************************************************)
(* 4: returns-enrichment stage (query_fund_returns): a sequential loop.    *)
(* A candidate's lookup is called once, and a second time in the KeyError  *)
(* fallback or in the RequestException retry.  A call returns a payload    *)
(* (with or without the near-1-year and near-3-month rows), returns a      *)
(* payload without the expected columns ("keyerror": indexing it raises    *)
(* KeyError), or raises ("request_exception", "exception").                *)
(***************************************************************************)
RevPauseEvery == 15      \* if i % 15 == 0
RevPauseMs == 750        \* time.sleep(0.75)
RetrySleepMs == 2000     \* time.sleep(2)

Payload(has1y, has3m) == [kind |-> "payload", has_1y |-> has1y, has_3m |-> has3m]
Failure(kind) == [kind |-> kind, has_1y |-> FALSE, has_3m |-> FALSE]

RevCalls ==
    {Payload(a, b) : a \in BOOLEAN, b \in BOOLEAN}
        \cup {Failure("keyerror"), Failure("request_exception"), Failure("exception")}

\* a candidate's first and second call; the second matters after a KeyError or a
\* RequestException only
RevBehaviours ==
    {[first |-> f, second |-> f] : f \in RevCalls \ {Failure("keyerror"),
                                                      Failure("request_exception")}}
        \cup {[first |-> f, second |-> g] :
                f \in {Failure("keyerror"), Failure("request_exception")},
                g \in RevCalls}

\* the cells the stage writes
QueryFailed == Some("query_failed")
DataNotFound == Some("data_not_found")
Value1y == Some("return_1y")
Value3m == Some("return_3m")

\* lines 66-71 and 110-114: the value of the matching row, None without one
Extract(call) ==
    [r1y |-> IF call.has_1y THEN Value1y ELSE None,
     r3m |-> IF call.has_3m THEN Value3m ELSE None]

\* lines 84-97: the raw-record scan with item.get, and its not-found text
Scan(call) ==
    [r1y |-> IF call.has_1y THEN Value1y ELSE DataNotFound,
     r3m |-> IF call.has_3m THEN Value3m ELSE DataNotFound]

\* the not-found text in place of the failure text
SentinelNotFound == [r1y |-> DataNotFound, r3m |-> DataNotFound]
Sentinel == [r1y |-> QueryFailed, r3m |-> QueryFailed]

\* line 130: if i % 15 == 0
RevPauseDueLate(i) == i % (RevPauseEvery + 1) = 0
RevPauseDue(i) == i % RevPauseEvery = 0

InitRevWith(fs) ==
    /\ pc = "rev_call"
    /\ funds = fs
    /\ max_workers = 0
    /\ idx = 1
    /\ IdlePool
    /\ IdleThrottle
    /\ IdleCollect
    /\ store = [i \in 1..Len(fs) |-> [code |-> fs[i].code]]
    /\ errfile = <<>>
    /\ callers = <<>>
    /\ fetch = NoFetch
    /\ metrics = <<>>
    /\ rev = [returns_1y |-> <<>>, returns_3m |-> <<>>, lookups |-> 0, retry_sleeps |-> 0]

\* the state after the candidate file has been read (lines 35-52): short lists
\* of any behaviours, long lists of one behaviour
InitRev ==
    \/ \E n \in 0..MaxRiskFunds : \E b \in [1..n -> RevBehaviours] :
          InitRevWith([i \in 1..n |-> [code |-> zfill(CodeAt(i), 6), first |-> b[i].first,
                                       second |-> b[i].second]])
    \/ \E n \in 0..MaxSubmissions : \E b \in RevBehaviours :
          InitRevWith([i \in 1..n |-> [code |-> zfill(CodeAt(i), 6), first |-> b.first,
                                       second |-> b.second]])

\* an append to the first list only
RevAppendFirstOnly(cells) == [rev EXCEPT !.returns_1y = Append(@, cells.r1y)]

RevAppend(cells) ==
    [rev EXCEPT !.returns_1y = Append(@, cells.r1y), !.returns_3m = Append(@, cells.r3m)]

RevRest == <<inVars, poolVars, request_queue, burst, collectVars, callers, fetch, metrics>>

\* lines 55-75 and 124-127: the first call of candidate idx and what it leads to
RevCall ==
    /\ pc = "rev_call"
    /\ idx <= Len(funds)
    /\ LET call == funds[idx].first IN
       /\ pc' = CASE call.kind = "keyerror" -> "rev_fallback"
                  [] call.kind = "request_exception" -> "rev_retry"
                  [] OTHER -> "rev_tail"
       /\ rev' = CASE call.kind = "payload" -> [RevAppend(Extract(call)) EXCEPT !.lookups = 1]
                   [] call.kind = "exception" -> [RevAppend(Sentinel) EXCEPT !.lookups = 1]
                   [] OTHER -> [rev EXCEPT !.lookups = 1]
    /\ UNCHANGED <<idx, pauses, fileVars, RevRest>>

\* lines 77-101: the KeyError handler calls again and scans the raw records
RevFallback ==
    /\ pc = "rev_fallback"
    /\ LET call == funds[idx].second IN
       rev' = [(IF call.kind \in {"request_exception", "exception"}
                THEN RevAppend(Sentinel) ELSE RevAppend(Scan(call)))
               EXCEPT !.lookups = @ + 1]
    /\ pc' = "rev_tail"
    /\ UNCHANGED <<idx, pauses, fileVars, RevRest>>

\* the same handler without its time.sleep(2)
RevRetryNoSleep ==
    /\ pc = "rev_retry"
    /\ LET call == funds[idx].second IN
       rev' = [(IF call.kind = "payload"
                THEN RevAppend(Extract(call)) ELSE RevAppend(Sentinel))
               EXCEPT !.lookups = @ + 1]
    /\ pc' = "rev_tail"
    /\ UNCHANGED <<idx, pauses, fileVars, RevRest>>

\* lines 103-122: the RequestException handler sleeps 2 s and calls once more
RevRetry ==
    /\ pc = "rev_retry"
    /\ LET call == funds[idx].second IN
       rev' = [(IF call.kind = "payload"
                THEN RevAppend(Extract(call)) ELSE RevAppend(Sentinel))
               EXCEPT !.lookups = @ + 1, !.retry_sleeps = @ + 1]
    /\ pc' = "rev_tail"
    /\ UNCHANGED <<idx, pauses, fileVars, RevRest>>

\* lines 129-132 and the loop head: the pause after every 15th candidate
RevTail ==
    /\ pc = "rev_tail"
    /\ pauses' = IF RevPauseDue(idx) THEN pauses + 1 ELSE pauses
    /\ idx' = idx + 1
    /\ pc' = "rev_call"
    /\ UNCHANGED <<rev, fileVars, RevRest>>

\* lines 134-143: the two columns are added and the file is written
RevSave ==
    /\ pc = "rev_call"
    /\ idx > Len(funds)
    /\ Len(rev.returns_1y) = Len(store)
    /\ Len(rev.returns_3m) = Len(store)
    /\ store' = [i \in 1..Len(store) |->
                    [code |-> store[i].code, r1y |-> rev.returns_1y[i],
                     r3m |-> rev.returns_3m[i]]]
    /\ pc' = "rev_done"
    /\ UNCHANGED <<idx, pauses, errfile, rev, RevRest>>

NextRev == RevCall \/ RevFallback \/ RevRetry \/ RevTail \/ RevSave

SpecRev == InitRev /\ [][NextRev]_vars

(***************************************************************************)
(* The two throttles that pause after a burst: controlled_submit of 1.1    *)
(* and the every-15th-candidate pause of 4.                                *)
(***************************************************************************)
InitThrottle == InitSubmit \/ InitRev

NextThrottle == AgeSubmit \/ AgeSubmitDone \/ RevCall \/ RevFallback \/ RevRetry
                    \/ RevTail \/ RevSave

SpecThrottle == InitThrottle /\ [][NextThrottle]_vars

\* C5 as stated: after N acquisitions the pauses taken add up to at least
\* floor(N / B) * P, for controlled_submit (B = 15, P = 0.15 s) and for the
\* returns-enrichment loop (B = 15, P = 0.75 s).
C5_PauseTimeFloorN ==
    /\ pc = "age_submit" =>
          pauses * PauseMs >= (Len(futures) \div BurstSize) * PauseMs
    /\ pc = "rev_call" =>
          pauses * RevPauseMs >= ((idx - 1) \div RevPauseEvery) * RevPauseMs

\* C5 as amended: controlled_submit pauses before the (B+1)-th, (2B+1)-th, ...
\* acquisition, so N >= 1 acquisitions accumulate at least floor((N-1) / B) * P
\* of pause; the returns-enrichment loop pauses after every 15th candidate, so
\* i processed candidates accumulate at least floor(i / 15) * 0.75 s.
C5_PauseTimeAmended ==
    /\ (pc = "age_submit" /\ Len(futures) >= 1) =>
          pauses * PauseMs >= ((Len(futures) - 1) \div BurstSize) * PauseMs
    /\ pc = "rev_call" =>
          pauses * RevPauseMs >= ((idx - 1) \div RevPauseEvery) * RevPauseMs

\* 30 candidates of the returns-enrichment loop processed, two pauses taken
C5_Witness == pc = "rev_call" /\ idx = 2 * RevPauseEvery + 1 /\ pauses = 2

(***************************************************************************)
(* calculate_ulcer_index on every short series over a few net values.      *)
(***************************************************************************)
MaxSeriesLen == 3

\* net values in units of 1/Scale: small, close together, far apart
SeriesValues == {2, 3, 999, 1000, 1001, 1500, 3000}

UlcerSeries == UNION {[1..n -> SeriesValues] : n \in 1..MaxSeriesLen}

InitUlcer ==
    /\ pc = "metrics"
    /\ funds = <<>>
    /\ max_workers = 0
    /\ idx = 1
    /\ IdlePool
    /\ IdleThrottle
    /\ IdleCollect
    /\ IdleFiles
    /\ callers = <<>>
    /\ fetch = NoFetch
    /\ rev = <<>>
    /\ \E nv \in UlcerSeries :
          metrics = [fn |-> "none", net_values |-> nv, days |-> WindowDays,
                     annualized_return |-> Unapplied, risk_free_rate |-> Py(1500),
                     ulcer_index |-> Unapplied, out |-> Unapplied]

NextUlcer == ApplyUlcerIndex

SpecUlcer == InitUlcer /\ [][NextUlcer]_vars

NonDecreasing(nv) == \A i \in 1..(Len(nv) - 1) : nv[i] <= nv[i + 1]

\* C11: the Ulcer Index of every non-decreasing series of positive net values,
\* of any length >= 1, is exactly 0.
C11_UlcerZeroOnNonDecreasing ==
    (metrics.fn = "ulcer_index" /\ NonDecreasing(metrics.net_values)
        /\ \A i \in 1..Len(metrics.net_values) : metrics.net_values[i] > 0)
    => metrics.out = Np(0)

\* the index of a series that rises twice has been computed, and is 0
C11_Witness ==
    /\ metrics.fn = "ulcer_index"
    /\ metrics.net_values = <<1000, 1500, 3000>>
    /\ metrics.out = Np(0)

(***************************************************************************)
(* Establishment-age stage: the class of each candidate, by what its       *)
(* lookup returned.                                                        *)
(***************************************************************************)
InValidCodes(i) == funds[i].code \in Range(valid_codes)
InErrorRecords(i) == \E k \in 1..Len(error_records) : error_records[k].code = funds[i].code

\* the lookup returned a founding date, on or before / after now - 3 * 365 days
FoundedBy(i, day) == funds[i].lookup.kind = "date" /\ funds[i].lookup.date <= day
FoundedAfter(i, day) == funds[i].lookup.kind = "date" /\ funds[i].lookup.date > day

\* C12: at the end of an establishment-age run a candidate is in surviving iff
\* its lookup returned a founding date <= now - 3 years; it is in neither
\* collection iff the founding date is later; it is in errors, and not in
\* surviving, iff the lookup raised or the founding-date field was missing or
\* did not parse.
C12_AgeClassification ==
    pc = "age_done" =>
        \A i \in Tasks :
            /\ InValidCodes(i) <=> FoundedBy(i, Today - 3 * 365)
            /\ (~InValidCodes(i) /\ ~InErrorRecords(i)) <=> FoundedAfter(i, Today - 3 * 365)
            /\ (InErrorRecords(i) /\ ~InValidCodes(i))
                  <=> funds[i].lookup.kind \in {"raises", "norow", "baddate"}

\* 000001 founded 5 years ago and 000002 founded 1 year ago:
\* surviving = [000001], errors = []
C12_Witness ==
    /\ pc = "age_done"
    /\ Len(funds) = 2
    /\ funds[1].code = "000001" /\ funds[1].lookup = [kind |-> "date", date |-> Today - 5 * 365]
    /\ funds[2].code = "000002" /\ funds[2].lookup = [kind |-> "date", date |-> Today - 365]
    /\ valid_codes = <<"000001">>
    /\ error_records = <<>>

(***************************************************************************)
(* The candidate-set file at the end of a run.  Stages 2, 3 and 4 read and *)
(* write the same file, so a run that ends without writing leaves its own  *)
(* input there for the next stage.                                         *)
(***************************************************************************)
StoreCodes == {store[k].code : k \in 1..Len(store)}
CodesOf(S) == {funds[i].code : i \in S}

\* C13 as stated: whenever a stage run ends, the candidate-set file holds exactly
\* the survivors of the run, every dropped candidate omitted, also when no
\* candidate produced a result.  Violated by stages 2 and 3: with an empty
\* result list they end in KeyError before to_excel, and the file keeps every
\* input candidate.
C13_FileHoldsExactlySurvivors ==
    /\ pc = "age_done" =>
          StoreCodes = CodesOf(AgeSurviving) /\ Len(store) = Cardinality(AgeSurviving)
    /\ pc \in {"buy_done", "buy_raised_merge"} =>
          StoreCodes = CodesOf(BuySurviving) /\ Len(store) = Cardinality(BuySurviving)
    /\ pc \in {"risk_done", "risk_raised_merge", "risk_raised_collect"} =>
          StoreCodes = CodesOf(RiskSurviving) /\ Len(store) = Cardinality(RiskSurviving)

(***************************************************************************)
(* Rate-limiter acquisitions against pool submissions.                     *)
(***************************************************************************)
\* tokens put by controlled_submit so far: 15 per completed burst, and the
\* submissions since the last pause
Acquisitions == pauses * BurstSize + burst

\* C14 as stated: in every stage that dispatches to the worker pool, each
\* executor.submit of a candidate's task is preceded by its own rate-limiter
\* acquisition.  Violated by stages 2 and 3, which call executor.submit
\* directly: stage 2 pauses while collecting results, stage 3 sleeps inside
\* the task.
C14_EverySubmissionAcquires ==
    pc \in {"age_submit", "buy_submit", "risk_submit"} => Len(futures) = Acquisitions

(***************************************************************************)
(* Runs of 1.1 and of 3 under fair scheduling: the main thread and the     *)
(* worker threads keep taking steps while one is possible (every lookup    *)
(* returns or raises, so a running task finishes).                         *)
(***************************************************************************)
InitRun == InitAge \/ InitRisk

NextRun ==
    \/ AgeSubmit
    \/ AgeSubmitDone
    \/ \E i \in Tasks : AgeWorkerFinish(i)
    \/ \E i \in Tasks : AgeCollect(i)
    \/ AgeSave
    \/ RiskSubmit
    \/ RiskSubmitDone
    \/ \E i \in Tasks : RiskWorkerFinish(i)
    \/ \E i \in Tasks : RiskCollect(i)
    \/ RiskSave
    \/ \E i \in Tasks : WorkerStart(i)

SpecRunFair == InitRun /\ [][NextRun]_vars /\ WF_vars(NextRun)

\* C15 as stated: under fair scheduling a stage run on any finite candidate list
\* with any max_workers >= 1 eventually completes, every submitted candidate
\* having produced exactly one collected result by then (no deadlock, no
\* unbounded retry, no early abort).  Violated by stage 3: an exception of a
\* task ends the run at future.result() with results still uncollected, and an
\* empty result list ends it at the merge.
C15_RunCompletes ==
    <>(pc \in {"age_done", "risk_done"} /\ yielded = Tasks /\ Finished = Tasks)

(***************************************************************************)
(* Risk-scoring stage: candidates whose Ulcer Index is exactly 0.          *)
(***************************************************************************)
ZeroUlcer(i) == RiskOutcome(i).tag = "result" /\ RiskOutcome(i).ulcer_index = Np(0)

\* C16 as stated: a candidate whose Ulcer Index over the window is zero is never
\* in the surviving set the risk-scoring stage writes, whatever its annualized
\* return.  Violated: the division by a numpy zero gives inf, and inf >= 3.5.
C16_ZeroUlcerExcluded ==
    pc = "risk_done" => \A i \in Tasks : ZeroUlcer(i) => funds[i].code \notin StoreCodes

(***************************************************************************)
(* Purchase-eligibility stage: the class of each candidate, by its row of  *)
(* the reference table.                                                    *)
(***************************************************************************)
\* the candidate has a row with an open status and a numeric minimum <= 1000
Eligible(i) ==
    /\ funds[i].info.kind = "row"
    /\ funds[i].info.status \notin {"closed_period", "suspended"}
    /\ funds[i].info.start.num
    /\ funds[i].info.start.v <= 1000

\* the candidate is absent from the table, or its minimum is not a number
AbsentOrNonNumeric(i) ==
    \/ funds[i].info.kind = "absent"
    \/ funds[i].info.kind = "row" /\ ~funds[i].info.start.num

\* C17: in the purchase-eligibility stage a candidate survives iff its status is
\* not blocked and its purchase minimum is numeric and <= 1000; a candidate
\* absent from the reference table, or with a non-numeric minimum, is left out
\* of the output, its task raises nothing and a run that holds it is not
\* aborted.
C17_PurchaseEligibility ==
    /\ pc = "buy_done" =>
          \A i \in Tasks : funds[i].code \in StoreCodes <=> Eligible(i)
    /\ pc \in {"buy_collect", "buy_done", "buy_raised_merge"} =>
          \A i \in Tasks :
              AbsentOrNonNumeric(i) =>
                  /\ fstate[i] = "finished" => fresult[i].tag = "result"
                  /\ pc # "buy_raised_merge"

\* an absent candidate and one with an open status and a minimum of exactly 1000:
\* the run ends with the second one alone in the file
C17_Witness ==
    /\ pc = "buy_done"
    /\ Len(funds) = 2
    /\ funds[1].info.kind = "absent"
    /\ funds[2].info = [kind |-> "row", status |-> "open", start |-> Number(1000)]
    /\ StoreCodes = {funds[2].code}

(***************************************************************************)
(* Returns-enrichment stage: what the written file holds, and the one-shot *)
(* retry.                                                                  *)
(***************************************************************************)
Raises(call) == call.kind \in {"request_exception", "exception"}

\* every call made for candidate i raised: the first one with an exception
\* other than KeyError and RequestException (no second call), or the first with
\* RequestException and the retry with any exception
AllLookupsRaise(i) ==
    \/ funds[i].first.kind = "exception"
    \/ funds[i].first.kind = "request_exception" /\ Raises(funds[i].second)

\* C18: the returns-enrichment stage augments and never filters: the written
\* file holds exactly the input candidates, in input order, each with a
\* near-1-year and a near-3-month attribute; a candidate whose lookups all fail
\* keeps its row and carries the failure sentinel in both attributes.
C18_AugmentsNeverFilters ==
    pc = "rev_done" =>
        /\ Len(store) = Len(funds)
        /\ \A i \in 1..Len(funds) :
              /\ DOMAIN store[i] = {"code", "r1y", "r3m"}
              /\ store[i].code = funds[i].code
              /\ AllLookupsRaise(i) =>
                    store[i].r1y = Some("query_failed") /\ store[i].r3m = Some("query_failed")

\* two candidates, the first failing on both calls, the second found: both rows
\* are written, the first with the sentinel
C18_Witness ==
    /\ pc = "rev_done"
    /\ Len(funds) = 2
    /\ funds[1].first.kind = "request_exception"
    /\ funds[1].second.kind = "request_exception"
    /\ funds[2].first = Payload(TRUE, TRUE)
    /\ store[1].r1y = QueryFailed
    /\ store[2].r1y = Value1y /\ store[2].r3m = Value3m

\* candidates up to i whose first call raised RequestException
TransportFailures(i) ==
    {j \in 1..i : funds[j].first.kind = "request_exception"}

\* C19: on a transport failure of a candidate's lookup the lookup is retried
\* exactly once, after the 2-second pause; a successful retry records the
\* extracted values, a failed one the sentinel, and no further call is made for
\* the candidate.
C19_OneRetryAfterPause ==
    /\ pc \in {"rev_call", "rev_fallback", "rev_retry", "rev_tail"} => rev.lookups <= 2
    /\ pc = "rev_retry" =>
          /\ rev.lookups = 1
          /\ rev.retry_sleeps * RetrySleepMs
                = (Cardinality(TransportFailures(idx)) - 1) * RetrySleepMs
    /\ (pc = "rev_tail" /\ funds[idx].first.kind = "request_exception") =>
          /\ rev.lookups = 2
          /\ rev.retry_sleeps * RetrySleepMs
                = Cardinality(TransportFailures(idx)) * RetrySleepMs
          /\ Len(rev.returns_1y) = idx /\ Len(rev.returns_3m) = idx
          /\ LET retry == funds[idx].second IN
             IF retry.kind = "payload"
             THEN /\ rev.returns_1y[idx] = (IF retry.has_1y THEN Value1y ELSE None)
                  /\ rev.returns_3m[idx] = (IF retry.has_3m THEN Value3m ELSE None)
             ELSE /\ rev.returns_1y[idx] = QueryFailed
                  /\ rev.returns_3m[idx] = QueryFailed
    /\ (pc = "rev_tail" /\ funds[idx].first.kind \in {"payload", "exception"}) =>
          rev.lookups = 1

\* a candidate whose first call failed in transport and whose retry succeeded:
\* two calls, one 2-second pause, the retry's values recorded
C19_Witness ==
    /\ pc = "rev_tail"
    /\ idx = 1
    /\ funds[1].first.kind = "request_exception"
    /\ funds[1].second = Payload(TRUE, TRUE)
    /\ rev.lookups = 2
    /\ rev.retry_sleeps = 1
    /\ rev.returns_1y = <<Value1y>>

(***************************************************************************)
(* get_fund_data: the first attempt that does not raise.                   *)
(***************************************************************************)
\* C20: if attempt k <= max_retries is the first that does not raise,
\* get_fund_data returns that attempt's payload after exactly k calls and k - 1
\* backoff sleeps and makes no later call; after max_retries raising calls it
\* returns None without a backoff after the last one.
C20_StopsAtFirstSuccess ==
    pc = "fetch" =>
        /\ fetch.calls <= funds[1].fails + 1
        /\ fetch.backoffs <= MaxRetries - 1
        /\ fetch.pc = "returned" =>
              IF funds[1].fails < MaxRetries
              THEN /\ fetch.calls = funds[1].fails + 1
                   /\ fetch.backoffs = funds[1].fails
                   /\ fetch.ret = Some(funds[1].payload)
              ELSE /\ fetch.calls = MaxRetries
                   /\ fetch.backoffs = MaxRetries - 1
                   /\ fetch.ret = None

\* two raising calls, then the third returns its payload
C20_Witness ==
    /\ pc = "fetch"
    /\ funds[1].fails = 2
    /\ fetch.pc = "returned"
    /\ fetch.calls = 3
    /\ fetch.backoffs = 2
    /\ fetch.ret = Some([kind |-> "series", values |-> <<1000, 990, 1200>>])

(***************************************************************************)
(* Returns-enrichment loop: the two lists against the loop index.          *)
(***************************************************************************)
\* what the loop body records for candidate i, by the path its calls take
RecordedFor(i) ==
    LET first == funds[i].first
        second == funds[i].second
    IN  CASE first.kind = "payload" ->
                [r1y |-> IF first.has_1y THEN Value1y ELSE None,
                 r3m |-> IF first.has_3m THEN Value3m ELSE None]
          [] first.kind = "keyerror" ->
                IF second.kind \in {"request_exception", "exception"}
                THEN [r1y |-> QueryFailed, r3m |-> QueryFailed]
                ELSE [r1y |-> IF second.has_1y THEN Value1y ELSE DataNotFound,
                      r3m |-> IF second.has_3m THEN Value3m ELSE DataNotFound]
          [] first.kind = "request_exception" ->
                IF second.kind = "payload"
                THEN [r1y |-> IF second.has_1y THEN Value1y ELSE None,
                      r3m |-> IF second.has_3m THEN Value3m ELSE None]
                ELSE [r1y |-> QueryFailed, r3m |-> QueryFailed]
          [] OTHER -> [r1y |-> QueryFailed, r3m |-> QueryFailed]

\* candidates whose pass of the loop body has appended its values
Processed ==
    CASE pc = "rev_tail" -> idx
      [] pc \in {"rev_call", "rev_fallback", "rev_retry"} -> idx - 1
      [] OTHER -> Len(funds)

\* C21: after the i-th candidate has been processed len(returns_1y) =
\* len(returns_3m) = i, every path (success, schema fallback, transport retry,
\* generic failure) having appended exactly one value to each list; the value at
\* position j is candidate j's, and the lists have the frame's length when the
\* columns are assigned.
C21_ListsInStep ==
    pc \in {"rev_call", "rev_fallback", "rev_retry", "rev_tail", "rev_done"} =>
        /\ Len(rev.returns_1y) = Processed
        /\ Len(rev.returns_3m) = Processed
        /\ \A j \in 1..Processed :
              /\ rev.returns_1y[j] = RecordedFor(j).r1y
              /\ rev.returns_3m[j] = RecordedFor(j).r3m
        /\ ((pc = "rev_call" /\ idx > Len(funds)) \/ pc = "rev_done") =>
              Len(rev.returns_1y) = Len(store) /\ Len(rev.returns_3m) = Len(store)

\* two candidates processed, the first through the schema fallback and the second
\* through the transport retry: two values in each list
C21_Witness ==
    /\ pc = "rev_tail"
    /\ idx = 2
    /\ funds[1].first.kind = "keyerror"
    /\ funds[2].first.kind = "request_exception"
    /\ Len(rev.returns_1y) = 2
    /\ Len(rev.returns_3m) = 2

====
